---- MODULE Spec2Model ----
(***************************************************************************)
(* The catalog page (src/src/app/page.tsx, component Home) with its        *)
(* duration formatter, and the admin form (src/unnamed/part_000, component *)
(* VideoForm) with its category auto-detector.                             *)
(*                                                                         *)
(* Text is a sequence of one-character strings, so that toLowerCase, trim, *)
(* includes, the default sort and localeCompare are computed character by  *)
(* character.  An optional value (video.tags) is a sequence of length 0    *)
(* (undefined) or 1 (the value).                                           *)
(***************************************************************************)
EXTENDS Integers, Sequences, FiniteSets, TLC

VARIABLES
    user,               \* useState<User | null>(null): "null" or "anon"
    authPhase,          \* the authentication provider, as the page sees it
    videos,             \* useState<Video[]>([])
    filteredVideos,     \* useState<Video[]>([])
    searchTerm,         \* useState('')
    selectedCategory,   \* useState('All')
    isLoading,          \* useState(true)
    dynamicCategories,  \* useState<string[]>([])
    loads,              \* the loadVideos calls not yet finished, in start order
    title,              \* detectCategoriesFromContent: argument title
    description,        \* detectCategoriesFromContent: argument description
    detected,           \* detectCategoriesFromContent: <<>> or <<result>>
    loadCap,            \* how many unfinished loadVideos calls the run admits
    videoProp,          \* VideoForm prop video: <<>> (null) or <<record>>
    open,               \* VideoForm prop open
    formData,           \* VideoForm useState formData
    selectedCategories, \* VideoForm useState<string[]> selectedCategories
    formIsLoading,      \* VideoForm useState isLoading
    isLoadingYouTube,   \* VideoForm useState isLoadingYouTube
    fetches,            \* how many getYouTubeVideoData calls have not finished
    saving,             \* the store call not yet finished: <<>>, <<"add">> or <<"update">>
    lastToast,          \* the toast the form's last handler step raised
    savedFired,         \* the form's last handler step called onVideoSaved
    sent,               \* the record that step passed to the store, <<>> if none
    duration,           \* formatDuration: argument, <<>> (undefined) or <<text>>
    fields,             \* the hours, minutes, seconds the argument encodes
    formatted           \* formatDuration: <<>> or <<result>>

vars == <<user, authPhase, videos, filteredVideos, searchTerm, selectedCategory,
          isLoading, dynamicCategories, loads,
          title, description, detected, loadCap,
          videoProp, open, formData, selectedCategories, formIsLoading,
          isLoadingYouTube, fetches, saving, lastToast, savedFired, sent,
          duration, fields, formatted>>

pageVars == <<user, authPhase, videos, filteredVideos, searchTerm,
              selectedCategory, isLoading, dynamicCategories, loads>>

detectVars == <<title, description, detected>>

formVars == <<videoProp, open, formData, selectedCategories, formIsLoading,
              isLoadingYouTube, fetches, saving, lastToast, savedFired, sent>>

formatVars == <<duration, fields, formatted>>

\* what the catalog page's handlers never touch
offPage == <<detectVars, formVars, formatVars, loadCap>>

-----------------------------------------------------------------------------
(* Bounds *)

\* loadVideos calls that may be unfinished at one time
MaxLoads == 1

\* the same, where reloads race each other
MaxReloads == 2

\* length of the list the store's getVideos returns
MaxVideos == 2

\* the largest hours, minutes or seconds number a duration carries
MaxField == 11

\* getYouTubeVideoData calls that may be unfinished at one time
MaxFetches == 2

-----------------------------------------------------------------------------
(* Text *)

Upper == <<"A","B","C","D","E","F","G","H","I","J","K","L","M",
           "N","O","P","Q","R","S","T","U","V","W","X","Y","Z">>

Lower == <<"a","b","c","d","e","f","g","h","i","j","k","l","m",
           "n","o","p","q","r","s","t","u","v","w","x","y","z">>

Range(s) == {s[i] : i \in 1..Len(s)}

IndexIn(c, s) == IF c \in Range(s) THEN CHOOSE i \in 1..Len(s) : s[i] = c ELSE 0

\* UTF-16 code unit order of the characters used: space, A-Z, a-z
CodeUnit(c) ==
    IF c = " " THEN 0
    ELSE IF c \in Range(Upper) THEN IndexIn(c, Upper)
    ELSE 26 + IndexIn(c, Lower)

\* String.prototype.toLowerCase, one character
LowerChar(c) == IF c \in Range(Upper) THEN Lower[IndexIn(c, Upper)] ELSE c

\* String.prototype.toLowerCase
toLowerCase(s) == [i \in 1..Len(s) |-> LowerChar(s[i])]

\* String.prototype.trim
RECURSIVE trim(_)
trim(s) ==
    IF s = <<>> THEN s
    ELSE IF Head(s) = " " THEN trim(Tail(s))
    ELSE IF s[Len(s)] = " " THEN trim(SubSeq(s, 1, Len(s) - 1))
    ELSE s

\* String.prototype.includes
includes(s, t) ==
    \E i \in 0..(Len(s) - Len(t)) : SubSeq(s, i + 1, i + Len(t)) = t

\* the default comparison of Array.prototype.sort: code units, then length
RECURSIVE CodeUnitLess(_, _)
CodeUnitLess(a, b) ==
    IF b = <<>> THEN FALSE
    ELSE IF a = <<>> THEN TRUE
    ELSE IF CodeUnit(Head(a)) # CodeUnit(Head(b))
         THEN CodeUnit(Head(a)) < CodeUnit(Head(b))
    ELSE CodeUnitLess(Tail(a), Tail(b))

\* collation weight of a character: space before letters, letters by alphabet
Primary(c) == IF c = " " THEN 0 ELSE IndexIn(LowerChar(c), Lower)

RECURSIVE PrimaryCompare(_, _)
PrimaryCompare(a, b) ==
    IF a = <<>> /\ b = <<>> THEN 0
    ELSE IF a = <<>> THEN -1
    ELSE IF b = <<>> THEN 1
    ELSE IF Primary(Head(a)) < Primary(Head(b)) THEN -1
    ELSE IF Primary(Head(a)) > Primary(Head(b)) THEN 1
    ELSE PrimaryCompare(Tail(a), Tail(b))

\* String.prototype.localeCompare: letters first, case breaks ties with the
\* lower-case letter first
localeCompare(a, b) ==
    IF PrimaryCompare(a, b) # 0 THEN PrimaryCompare(a, b)
    ELSE IF a = b THEN 0
    ELSE IF CodeUnitLess(b, a) THEN -1
    ELSE 1

-----------------------------------------------------------------------------
(* Arrays *)

\* [...new Set(s)]: first occurrences, in order
RECURSIVE Dedup(_)
Dedup(s) ==
    IF s = <<>> THEN <<>>
    ELSE LET front == Dedup(SubSeq(s, 1, Len(s) - 1))
             x == s[Len(s)]
         IN IF x \in Range(front) THEN front ELSE Append(front, x)

\* Array.prototype.filter(Boolean) on strings: the empty string is falsy
RECURSIVE filterBoolean(_)
filterBoolean(s) ==
    IF s = <<>> THEN <<>>
    ELSE IF Head(s) = <<>> THEN filterBoolean(Tail(s))
    ELSE <<Head(s)>> \o filterBoolean(Tail(s))

\* Array.prototype.flat, one level
RECURSIVE Flat(_)
Flat(s) == IF s = <<>> THEN <<>> ELSE Head(s) \o Flat(Tail(s))

\* video.tags || []
TagsOrEmpty(video) == IF video.tags = <<>> THEN <<>> ELSE video.tags[1]

\* Array.prototype.sort(): stable, by code units
RECURSIVE InsertDefault(_, _)
InsertDefault(x, s) ==
    IF s = <<>> THEN <<x>>
    ELSE IF CodeUnitLess(x, Head(s)) THEN <<x>> \o s
    ELSE <<Head(s)>> \o InsertDefault(x, Tail(s))

RECURSIVE sortDefault(_)
sortDefault(s) ==
    IF s = <<>> THEN <<>>
    ELSE InsertDefault(s[Len(s)], sortDefault(SubSeq(s, 1, Len(s) - 1)))

-----------------------------------------------------------------------------
(* Category names *)

All         == <<"A","l","l">>
Music       == <<"M","u","s","i","c">>
Interviews  == <<"I","n","t","e","r","v","i","e","w","s">>
Podcasts    == <<"P","o","d","c","a","s","t","s">>
Freestyle   == <<"F","r","e","e","s","t","y","l","e">>
OffThePorch == <<"O","f","f"," ","T","h","e"," ","P","o","r","c","h">>

staticCategories == <<All, Music, Interviews, Podcasts, Freestyle, OffThePorch>>

\* Array.prototype.indexOf, zero-based, -1 when absent
indexOf(s, x) == IndexIn(x, s) - 1

-----------------------------------------------------------------------------
(* Category reconciler *)

order == <<All, Music, Interviews, Podcasts, Freestyle, OffThePorch>>

\* a slip: names outside the preferred order compared as the default sort does
CompareCategoriesByCodeUnit(a, b) ==
    LET aIndex == indexOf(order, a)
        bIndex == indexOf(order, b)
    IN IF aIndex # -1 /\ bIndex # -1 THEN aIndex - bIndex
       ELSE IF aIndex # -1 THEN -1
       ELSE IF bIndex # -1 THEN 1
       ELSE IF a = b THEN 0
       ELSE IF CodeUnitLess(a, b) THEN -1
       ELSE 1

\* the comparator handed to sort
CompareCategories(a, b) ==
    LET aIndex == indexOf(order, a)
        bIndex == indexOf(order, b)
    IN IF aIndex # -1 /\ bIndex # -1 THEN aIndex - bIndex
       ELSE IF aIndex # -1 THEN -1
       ELSE IF bIndex # -1 THEN 1
       ELSE localeCompare(a, b)

\* Array.prototype.sort(compare): stable
RECURSIVE InsertCategory(_, _)
InsertCategory(x, s) ==
    IF s = <<>> THEN <<x>>
    ELSE IF CompareCategories(x, Head(s)) < 0 THEN <<x>> \o s
    ELSE <<Head(s)>> \o InsertCategory(x, Tail(s))

RECURSIVE sortCategories(_)
sortCategories(s) ==
    IF s = <<>> THEN <<>>
    ELSE InsertCategory(s[Len(s)], sortCategories(SubSeq(s, 1, Len(s) - 1)))

\* const categories = dynamicCategories.length > 0 ? [...].sort(...) : staticCategories
categoriesOf(dynamic) ==
    IF Len(dynamic) > 0
    THEN sortCategories(<<All>> \o Dedup(Tail(staticCategories) \o Tail(dynamic)))
    ELSE staticCategories

categories == categoriesOf(dynamicCategories)

categoryFromField(videoList) ==
    filterBoolean(Dedup([i \in 1..Len(videoList) |-> videoList[i].category]))

categoriesFromTags(videoList) ==
    filterBoolean(Dedup(Flat([i \in 1..Len(videoList) |-> TagsOrEmpty(videoList[i])])))

allUniqueCategories(videoList) ==
    filterBoolean(Dedup(categoryFromField(videoList) \o categoriesFromTags(videoList)))

\* if (allUniqueCategories.length > 0) setDynamicCategories(['All', ...sorted])
dynamicAfterLoad(dynamic, videoList) ==
    IF Len(allUniqueCategories(videoList)) > 0
    THEN <<All>> \o sortDefault(allUniqueCategories(videoList))
    ELSE dynamic

-----------------------------------------------------------------------------
(* Video filter *)

\* Array.prototype.filter
RECURSIVE FilterSeq(_, _)
FilterSeq(s, keep) ==
    IF s = <<>> THEN <<>>
    ELSE IF keep[Head(s)] THEN <<Head(s)>> \o FilterSeq(Tail(s), keep)
    ELSE FilterSeq(Tail(s), keep)

\* a slip: only the category field is compared
categoryKeepsFieldOnly(video, selected) == video.category = selected

\* video.category === selectedCategory || (video.tags && video.tags.includes(...))
categoryKeeps(video, selected) ==
    LET categoryMatches == video.category = selected
        tagsInclude == IF video.tags = <<>> THEN FALSE
                       ELSE selected \in Range(video.tags[1])
    IN categoryMatches \/ tagsInclude

\* the predicate of the search filter
textKeeps(video, term) ==
    \/ includes(toLowerCase(video.title), toLowerCase(term))
    \/ includes(toLowerCase(video.description), toLowerCase(term))
    \/ IF video.tags = <<>> THEN FALSE
       ELSE \E i \in 1..Len(video.tags[1]) :
               includes(toLowerCase(video.tags[1][i]), toLowerCase(term))

categoryStage(videoList, selected) ==
    IF selected # All
    THEN FilterSeq(videoList, [v \in Range(videoList) |-> categoryKeeps(v, selected)])
    ELSE videoList

textStage(filtered, term) ==
    IF trim(term) # <<>>
    THEN FilterSeq(filtered, [v \in Range(filtered) |-> textKeeps(v, term)])
    ELSE filtered

\* a slip: the search filter applied to videos instead of filtered
filterVideosSearchingAll(videoList, selected, term) ==
    IF trim(term) # <<>>
    THEN textStage(videoList, term)
    ELSE categoryStage(videoList, selected)

\* filterVideos: the value handed to setFilteredVideos
filterVideos(videoList, selected, term) ==
    textStage(categoryStage(videoList, selected), term)

-----------------------------------------------------------------------------
(* The store: the video records getVideos may return *)

\* the form's blank state: clearFormData, and the [video] effect without a video
Blank ==
    [title |-> <<>>, description |-> <<>>, videoUrl |-> <<>>,
     category |-> All, tags |-> <<All>>, thumbnail |-> <<>>]

Vlog == <<"V","l","o","g">>
art  == <<"a","r","t">>

Video(id, t, d, c, tags) ==
    [id |-> id, title |-> t, description |-> d, category |-> c, tags |-> tags]

\* category "All", the real category only in tags
videoB == Video(2, <<"B","a","r","s">>, <<>>, All, <<(<<Freestyle, All>>)>>)
\* a category outside the baseline, no tags field
videoC == Video(3, <<"A","r","t">>, <<"f","r","e","e">>, Vlog, <<>>)
\* no category, a tag outside the baseline and an empty tag
videoD == Video(4, <<"S","o","n","g">>, <<>>, <<>>, <<(<<art, <<>>, Music>>)>>)

VideoRecords == {videoB, videoC, videoD}

\* the lists getVideos may resolve to: documents are distinct
VideoLists ==
    {s \in UNION {[1..n -> VideoRecords] : n \in 0..MaxVideos} :
        \A i, j \in 1..Len(s) : i # j => s[i].id # s[j].id}

\* what the user may type into the search box
SearchTerms == { <<>>, <<" ">>, <<"F","r","e">>, <<"F","r","e"," ">> }

-----------------------------------------------------------------------------
(* The catalog page *)

RemoveAt(s, i) == SubSeq(s, 1, i - 1) \o SubSeq(s, i + 1, Len(s))

\* VideoForm's state once mounted closed with no video: the [video] effect ran
FormMounted ==
    /\ videoProp = <<>>
    /\ open = FALSE
    /\ formData = Blank
    /\ selectedCategories = <<All>>
    /\ formIsLoading = FALSE
    /\ isLoadingYouTube = FALSE
    /\ fetches = 0
    /\ saving = <<>>
    /\ lastToast = "none"
    /\ savedFired = FALSE
    /\ sent = <<>>

\* formatDuration not yet called
FormatIdle ==
    /\ duration = <<>>
    /\ fields = <<>>
    /\ formatted = <<>>

\* the page's useState initial values
HomeMounted ==
    /\ user = "null"
    /\ authPhase = "init"
    /\ videos = <<>>
    /\ filteredVideos = <<>>
    /\ searchTerm = <<>>
    /\ selectedCategory = All
    /\ isLoading = TRUE
    /\ dynamicCategories = <<>>
    /\ loads = <<>>

Init ==
    /\ HomeMounted
    /\ loadCap = MaxLoads
    /\ title = <<>>
    /\ description = <<>>
    /\ detected = <<>>
    /\ FormMounted
    /\ FormatIdle

\* the videos and user a loadVideos created by the current render closes over
Closure(u) == [empty |-> videos = <<>>, user |-> u # "null"]

\* a loadVideos call awaiting getVideos; newer is the answer a call started
\* after it has already received, <<>> while there is none
StartedLoad(closure) == [phase |-> "awaiting", closure |-> closure, newer |-> <<>>]

\* the answer of the most recently started call among load and those after it
Latest(load, videoList) == IF load.newer # <<>> THEN load.newer ELSE <<videoList>>

\* loads once call i has received videoList
Answered(i, videoList) ==
    RemoveAt([k \in 1..Len(loads) |->
                 IF k < i THEN [loads[k] EXCEPT !.newer = Latest(loads[i], videoList)]
                 ELSE loads[k]], i)

\* loadVideos up to its await: setIsLoading(true); getVideos()
CallLoadVideos(closure) ==
    /\ Len(loads) < loadCap
    /\ isLoading' = TRUE
    /\ loads' = Append(loads, StartedLoad(closure))

\* useEffect(() => { if (user) loadVideos() }, [user]) after setUser(u)
UserEffect(u) ==
    IF u # "null" /\ u # user
    THEN CallLoadVideos(Closure(u))
    ELSE UNCHANGED <<isLoading, loads>>

\* onAuthStateChanged delivers a restored session
AuthRestored ==
    /\ authPhase = "init"
    /\ authPhase' = "signedIn"
    /\ user' = "anon"
    /\ UserEffect("anon")
    /\ UNCHANGED <<videos, filteredVideos, searchTerm, selectedCategory,
                   dynamicCategories, offPage>>

\* onAuthStateChanged delivers null: signInAnonymously is started
AuthNone ==
    /\ authPhase = "init"
    /\ authPhase' = "signingIn"
    /\ user' = "null"
    /\ UserEffect("null")
    /\ UNCHANGED <<videos, filteredVideos, searchTerm, selectedCategory,
                   dynamicCategories, offPage>>

\* signInAnonymously resolves: onAuthStateChanged delivers the anonymous user
SignInSucceeds ==
    /\ authPhase = "signingIn"
    /\ authPhase' = "signedIn"
    /\ user' = "anon"
    /\ UserEffect("anon")
    /\ UNCHANGED <<videos, filteredVideos, searchTerm, selectedCategory,
                   dynamicCategories, offPage>>

\* signInAnonymously rejects: toast.error('Authentication failed')
SignInFails ==
    /\ authPhase = "signingIn"
    /\ authPhase' = "failed"
    /\ UNCHANGED <<user, videos, filteredVideos, searchTerm, selectedCategory,
                   isLoading, dynamicCategories, loads, offPage>>

\* the Retry Loading button, rendered while isLoading
ClickRetryLoading ==
    /\ isLoading
    /\ CallLoadVideos(Closure(user))
    /\ UNCHANGED <<user, authPhase, videos, filteredVideos, searchTerm,
                   selectedCategory, dynamicCategories, offPage>>

\* the Refresh Videos button, rendered when nothing is loading or listed
ClickRefreshVideos ==
    /\ ~isLoading
    /\ Len(filteredVideos) = 0
    /\ CallLoadVideos(Closure(user))
    /\ UNCHANGED <<user, authPhase, videos, filteredVideos, searchTerm,
                   selectedCategory, dynamicCategories, offPage>>

\* loadVideos after getVideos resolved with videoList, and the filter effect
LoadSucceeds(i, videoList) ==
    /\ loads[i].phase = "awaiting"
    /\ videos' = videoList
    /\ dynamicCategories' = dynamicAfterLoad(dynamicCategories, videoList)
    /\ isLoading' = FALSE
    /\ loads' = RemoveAt(loads, i)
    /\ filteredVideos' = filterVideos(videoList, selectedCategory, searchTerm)
    /\ UNCHANGED <<user, authPhase, searchTerm, selectedCategory, offPage>>

\* the same, noting the answer in the calls started earlier and still unfinished
LoadSucceedsNoted(i, videoList) ==
    /\ loads[i].phase = "awaiting"
    /\ videos' = videoList
    /\ dynamicCategories' = dynamicAfterLoad(dynamicCategories, videoList)
    /\ isLoading' = FALSE
    /\ loads' = Answered(i, videoList)
    /\ filteredVideos' = filterVideos(videoList, selectedCategory, searchTerm)
    /\ UNCHANGED <<user, authPhase, searchTerm, selectedCategory, offPage>>

\* a slip: a failed load treated as an empty list
LoadFailsAsEmpty(i) ==
    /\ loads[i].phase = "awaiting"
    /\ loads' = [loads EXCEPT ![i].phase = "timer"]
    /\ isLoading' = FALSE
    /\ videos' = <<>>
    /\ filteredVideos' = <<>>
    /\ UNCHANGED <<user, authPhase, searchTerm, selectedCategory,
                   dynamicCategories, offPage>>

\* loadVideos after getVideos rejected: toast, setTimeout, setIsLoading(false)
LoadFails(i) ==
    /\ loads[i].phase = "awaiting"
    /\ loads' = [loads EXCEPT ![i].phase = "timer"]
    /\ isLoading' = FALSE
    /\ UNCHANGED <<user, authPhase, videos, filteredVideos, searchTerm,
                   selectedCategory, dynamicCategories, offPage>>

\* the setTimeout callback: if (videos.length === 0 && user) loadVideos()
RetryTimer(i) ==
    /\ loads[i].phase = "timer"
    /\ IF loads[i].closure.empty /\ loads[i].closure.user
       THEN /\ isLoading' = TRUE
            /\ loads' = Append(RemoveAt(loads, i), StartedLoad(loads[i].closure))
       ELSE /\ loads' = RemoveAt(loads, i)
            /\ UNCHANGED isLoading
    /\ UNCHANGED <<user, authPhase, videos, filteredVideos, searchTerm,
                   selectedCategory, dynamicCategories, offPage>>

\* the search box's onChange, and the filter effect
SetSearchTerm(term) ==
    /\ term # searchTerm
    /\ searchTerm' = term
    /\ filteredVideos' = filterVideos(videos, selectedCategory, term)
    /\ UNCHANGED <<user, authPhase, videos, selectedCategory, isLoading,
                   dynamicCategories, loads, offPage>>

\* a category button's onClick, and the filter effect
SetSelectedCategory(category) ==
    /\ category # selectedCategory
    /\ selectedCategory' = category
    /\ filteredVideos' = filterVideos(videos, category, searchTerm)
    /\ UNCHANGED <<user, authPhase, videos, searchTerm, isLoading,
                   dynamicCategories, loads, offPage>>

Next ==
    \/ AuthRestored
    \/ AuthNone
    \/ SignInSucceeds
    \/ SignInFails
    \/ ClickRetryLoading
    \/ ClickRefreshVideos
    \/ \E i \in 1..Len(loads) : \E videoList \in VideoLists : LoadSucceeds(i, videoList)
    \/ \E i \in 1..Len(loads) : LoadFails(i)
    \/ \E i \in 1..Len(loads) : RetryTimer(i)
    \/ \E term \in SearchTerms : SetSearchTerm(term)
    \/ \E category \in Range(categories) : SetSelectedCategory(category)

Spec == Init /\ [][Next]_vars

\* the page where a reload may be started while another is unfinished
InitReloads ==
    /\ HomeMounted
    /\ loadCap = MaxReloads
    /\ title = <<>>
    /\ description = <<>>
    /\ detected = <<>>
    /\ FormMounted
    /\ FormatIdle

SpecReloads == InitReloads /\ [][Next]_vars

\* the same while the store answers every getVideos
NextAllSucceed ==
    \/ AuthRestored
    \/ AuthNone
    \/ SignInSucceeds
    \/ SignInFails
    \/ ClickRetryLoading
    \/ ClickRefreshVideos
    \/ \E i \in 1..Len(loads) : \E videoList \in VideoLists : LoadSucceedsNoted(i, videoList)
    \/ \E term \in SearchTerms : SetSearchTerm(term)
    \/ \E category \in Range(categories) : SetSelectedCategory(category)

SpecAllSucceed == InitReloads /\ [][NextAllSucceed]_vars

-----------------------------------------------------------------------------
(* Properties of the catalog page *)

NoDuplicates(s) == \A i, j \in 1..Len(s) : i # j => s[i] # s[j]

\* the reconciler: the category list the page derives from a freshly loaded list
reconcile(records) == categoriesOf(dynamicAfterLoad(<<>>, records))

\* the values a record list carries in category fields and tags
ValuesOf(records) ==
    {records[i].category : i \in 1..Len(records)}
        \cup UNION {Range(TagsOrEmpty(records[i])) : i \in 1..Len(records)}

\* C1: the category list derived from the loaded records holds no category
\* more than once.
C1_NoDuplicateCategories == NoDuplicates(categories)

\* C2: the category list is the reconciliation of exactly the records of the
\* last successful reload (videos), nothing carried over from earlier loads.
C2_RecomputedWholesale == categories = reconcile(videos)

\* the category stage as the specification words it
CategoryMatches(video) ==
    \/ video.category = selectedCategory
    \/ \E i \in 1..Len(TagsOrEmpty(video)) : TagsOrEmpty(video)[i] = selectedCategory

CategoryKept ==
    IF selectedCategory = All THEN videos ELSE SelectSeq(videos, CategoryMatches)

\* C3: with "All" selected the category stage keeps every record; otherwise it
\* keeps exactly the records whose category equals the selection or whose tags
\* hold it, a record without tags counting as one with no tags; and when the
\* text stage is skipped that is the list shown.
C3_CategoryStage ==
    /\ categoryStage(videos, selectedCategory) = CategoryKept
    /\ trim(searchTerm) = <<>> => filteredVideos = CategoryKept

C3_Witness ==
    /\ selectedCategory = Freestyle
    /\ searchTerm = <<>>
    /\ videos = <<videoC, videoB>>
    /\ filteredVideos = <<videoB>>

\* the text stage as the specification words it: the trimmed term is matched
ContainsTrimmedTerm(video) ==
    LET term == toLowerCase(trim(searchTerm))
    IN \/ includes(toLowerCase(video.title), term)
       \/ includes(toLowerCase(video.description), term)
       \/ \E i \in 1..Len(TagsOrEmpty(video)) :
             includes(toLowerCase(TagsOrEmpty(video)[i]), term)

\* C4: the search term is trimmed first; an empty trimmed term removes nothing,
\* otherwise exactly the records containing the trimmed term in title,
\* description or a tag, case-insensitively, are kept.
C4_TrimmedSearch ==
    filteredVideos =
        IF trim(searchTerm) = <<>> THEN CategoryKept
        ELSE SelectSeq(CategoryKept, ContainsTrimmedTerm)

\* a record passes the category stage / the text stage of filterVideos
PassesCategory(video) ==
    selectedCategory = All \/ categoryKeeps(video, selectedCategory)

PassesText(video) ==
    trim(searchTerm) = <<>> \/ textKeeps(video, searchTerm)

PassesBoth(video) == PassesCategory(video) /\ PassesText(video)

\* C5: the filter result is exactly the subsequence of the video list made of
\* the records passing both stages, in input order.
C5_FilterConjunctive == filteredVideos = SelectSeq(videos, PassesBoth)

C5_Witness ==
    /\ videos = <<videoC, videoB>>
    /\ selectedCategory = Freestyle
    /\ searchTerm = <<"F","r","e">>
    /\ PassesText(videoC) /\ ~PassesCategory(videoC)
    /\ filteredVideos = <<videoB>>

\* C6: once loaded records yielded a category, the category list starts with
\* "All", preferred entries come before the others and in preferred order, and
\* the others are in lexicographic (localeCompare) order.
C6_CategoryOrder ==
    LET shown == categories
        rank == [i \in 1..Len(shown) |-> indexOf(order, shown[i])]
    IN Len(dynamicCategories) > 0 =>
        /\ shown[1] = All
        /\ \A i, j \in 1..Len(shown) : i < j =>
              /\ rank[j] # -1 => rank[i] # -1
              /\ rank[i] # -1 /\ rank[j] # -1 => rank[i] <= rank[j]
              /\ rank[i] = -1 /\ rank[j] = -1 =>
                    localeCompare(shown[i], shown[j]) < 0

C6_Witness ==
    /\ Len(dynamicCategories) > 0
    /\ videos = <<videoC, videoD>>
    /\ categories = staticCategories \o <<art, Vlog>>

\* C7: for the empty list, and for records whose category and tag values are
\* all in the baseline list, the category list is exactly the baseline list.
C7_BaselineUnchanged ==
    ValuesOf(videos) \subseteq Range(staticCategories) => categories = staticCategories

AwaitingCount(l) == Cardinality({i \in 1..Len(l) : l[i].phase = "awaiting"})

\* C9: getVideos is called (a load starts awaiting) only while the user session
\* is non-null.
C9_SessionBeforeStore ==
    [][AwaitingCount(loads') > AwaitingCount(loads) => user' # "null"]_vars

\* C10: a reload that fails leaves the video list, the filtered list and the
\* category list as they were.
C10_FailedReloadKeepsState ==
    [][(\E i \in 1..Len(loads) :
            /\ loads[i].phase = "awaiting"
            /\ Len(loads') = Len(loads)
            /\ loads'[i].phase = "timer")
        => /\ videos' = videos
           /\ filteredVideos' = filteredVideos
           /\ dynamicCategories' = dynamicCategories
           /\ categoriesOf(dynamicCategories') = categories]_vars

C10_Witness ==
    /\ \E i \in 1..Len(loads) : loads[i].phase = "timer"
    /\ Len(videos) > 0
    /\ Len(filteredVideos) > 0
    /\ Len(dynamicCategories) > 0

------------------------------------------------------------------------\* C15: a retry timer that fires issues loadVideos again exactly when, at that
\* moment, the video list is empty and a session exists; so no retry follows a
\* load that filled the list.
C15_RetryReadsCurrentState ==
    [][(\E i \in 1..Len(loads) : loads[i].phase = "timer")
         => /\ (AwaitingCount(loads') > AwaitingCount(loads) /\ Len(loads') = Len(loads))
                 => (videos = <<>> /\ user # "null")
            /\ (AwaitingCount(loads') = AwaitingCount(loads) /\ Len(loads') < Len(loads))
                 => ~(videos = <<>> /\ user # "null")]_vars

\* C16: while a reload awaits the store the loading flag is set, and when the
\* last of several reloads that all succeeded completes, the video list is the
\* answer to the most recently started of them.
C16_LatestReloadWins ==
    [][/\ AwaitingCount(loads') > 0 => isLoading'
       /\ \A i \in 1..Len(loads) :
             (loads[i].newer # <<>> /\ Len(loads) = 1 /\ loads' = <<>>)
                 => videos' = loads[i].newer[1]]_vars

-----
(* Category auto-detector *)

\* the five if statements: one push per category, in source order
detectedIn(content) ==
    LET
        music ==
           \/ includes(content, <<"m","u","s","i","c">>)
           \/ includes(content, <<"s","o","n","g">>)
           \/ includes(content, <<"a","l","b","u","m">>)
           \/ includes(content, <<"a","r","t","i","s","t">>)
           \/ includes(content, <<"b","e","a","t">>)
           \/ includes(content, <<"t","r","a","c","k">>)
        interviews ==
           \/ includes(content, <<"i","n","t","e","r","v","i","e","w">>)
           \/ includes(content, <<"c","o","n","v","e","r","s","a","t","i","o","n">>)
           \/ includes(content, <<"t","a","l","k">>)
           \/ includes(content, <<"d","i","s","c","u","s","s","i","o","n">>)
        podcasts ==
           \/ includes(content, <<"p","o","d","c","a","s","t">>)
           \/ includes(content, <<"e","p","i","s","o","d","e">>)
           \/ includes(content, <<"s","h","o","w">>)
        freestyle ==
           \/ includes(content, <<"f","r","e","e","s","t","y","l","e">>)
           \/ includes(content, <<"c","y","p","h","e","r">>)
           \/ includes(content, <<"b","a","r","s">>)
           \/ includes(content, <<"r","a","p">>)
           \/ includes(content, <<"f","l","o","w">>)
        offThePorch ==
           \/ includes(content, <<"o","f","f"," ","t","h","e"," ","p","o","r","c","h">>)
           \/ includes(content, <<"p","o","r","c","h">>)
           \/ includes(content, <<"s","t","r","e","e","t">>)
           \/ includes(content, <<"h","o","o","d">>)
    IN (IF music THEN <<Music>> ELSE <<>>)
       \o (IF interviews THEN <<Interviews>> ELSE <<>>)
       \o (IF podcasts THEN <<Podcasts>> ELSE <<>>)
       \o (IF freestyle THEN <<Freestyle>> ELSE <<>>)
       \o (IF offThePorch THEN <<OffThePorch>> ELSE <<>>)

\* a slip: the content is matched without toLowerCase
detectCaseSensitive(t, d) ==
    LET detectedCategories == detectedIn(t \o <<" ">> \o d)
    IN IF Len(detectedCategories) > 0 THEN detectedCategories ELSE <<Music>>

\* detectCategoriesFromContent
detectCategoriesFromContent(t, d) ==
    LET content == toLowerCase(t \o <<" ">> \o d)
        detectedCategories == detectedIn(content)
    IN IF Len(detectedCategories) > 0 THEN detectedCategories ELSE <<Music>>

\* titles a metadata fetch may deliver
Titles == {
    <<>>,
    <<"F","r","e","e","s","t","y","l","e"," ","c","y","p","h","e","r"," ","a","t"," ","t","h","e"," ","p","a","r","k">>,
    <<"W","e","e","k","l","y"," ","p","o","d","c","a","s","t"," ","i","n","t","e","r","v","i","e","w"," ","e","p","i","s","o","d","e">>,
    <<"p","o","d">>,
    <<"M","U","S","I","C">>,
    <<"S","c","r","a","p">>,
    <<"H","e","l","l","o">>,
    <<"o","f","f"," ","t","h","e">> }

\* descriptions a metadata fetch may deliver
Descriptions == {
    <<>>,
    <<"c","a","s","t">>,
    <<"p","o","r","c","h">>,
    <<"N","e","w"," ","A","L","B","U","M">>,
    <<"H","o","o","d"," ","t","a","l","k"," ","s","h","o","w">>,
    <<"s","i","c">>,
    <<"v","i","e","w">> }

InitDetect ==
    /\ HomeMounted
    /\ loadCap = MaxLoads
    /\ title \in Titles
    /\ description \in Descriptions
    /\ detected = <<>>
    /\ FormMounted
    /\ FormatIdle

\* const autoCategories = detectCategoriesFromContent(title, description)
Detect ==
    /\ detected = <<>>
    /\ detected' = <<detectCategoriesFromContent(title, description)>>
    /\ UNCHANGED <<title, description, pageVars, formVars, formatVars, loadCap>>

NextDetect == Detect

SpecDetect == InitDetect /\ [][NextDetect]_vars

-----------------------------------------------------------------------------
(* Properties of the auto-detector *)

\* the taxonomy without "All", in its fixed order
Taxonomy == <<Music, Interviews, Podcasts, Freestyle, OffThePorch>>

\* the keyword set of each category
KeywordsOf(c) ==
    CASE c = Music ->
           {<<"m","u","s","i","c">>,
            <<"s","o","n","g">>,
            <<"a","l","b","u","m">>,
            <<"a","r","t","i","s","t">>,
            <<"b","e","a","t">>,
            <<"t","r","a","c","k">>}
      [] c = Interviews ->
           {<<"i","n","t","e","r","v","i","e","w">>,
            <<"c","o","n","v","e","r","s","a","t","i","o","n">>,
            <<"t","a","l","k">>,
            <<"d","i","s","c","u","s","s","i","o","n">>}
      [] c = Podcasts ->
           {<<"p","o","d","c","a","s","t">>,
            <<"e","p","i","s","o","d","e">>,
            <<"s","h","o","w">>}
      [] c = Freestyle ->
           {<<"f","r","e","e","s","t","y","l","e">>,
            <<"c","y","p","h","e","r">>,
            <<"b","a","r","s">>,
            <<"r","a","p">>,
            <<"f","l","o","w">>}
      [] c = OffThePorch ->
           {<<"o","f","f"," ","t","h","e"," ","p","o","r","c","h">>,
            <<"p","o","r","c","h">>,
            <<"s","t","r","e","e","t">>,
            <<"h","o","o","d">>}

\* the result is exactly the categories with a keyword in content, in taxonomy
\* order and without "All", or <<Music>> when there is none
DetectsFrom(result, content) ==
    LET qualifying ==
            {c \in Range(Taxonomy) : \E k \in KeywordsOf(c) : includes(content, k)}
    IN /\ Len(result) > 0
       /\ All \notin Range(result)
       /\ IF qualifying = {} THEN result = <<Music>> ELSE Range(result) = qualifying
       /\ \A i, j \in 1..Len(result) :
             i < j => IndexIn(result[i], Taxonomy) < IndexIn(result[j], Taxonomy)

\* C8 as stated: detect matches keywords against the lower-cased concatenation
\* of title and description.
C8_DetectConcatenation ==
    detected # <<>> => DetectsFrom(detected[1], toLowerCase(title \o description))

\* C8, amended: detect matches keywords against the lower-cased title, one
\* space, and description; otherwise as stated.
C8_DetectWithSeparator ==
    detected # <<>> =>
        DetectsFrom(detected[1], toLowerCase(title \o <<" ">> \o description))

C8_Witness ==
    /\ title = <<"W","e","e","k","l","y"," ","p","o","d","c","a","s","t"," ","i","n","t","e","r","v","i","e","w"," ","e","p","i","s","o","d","e">>
    /\ description = <<"H","o","o","d"," ","t","a","l","k"," ","s","h","o","w">>
    /\ detected = <<(<<Interviews, Podcasts, OffThePorch>>)>>

-----------------------------------------------------------------------------
(* Duration formatter *)

Digits == <<"0","1","2","3","4","5","6","7","8","9">>

\* \d
isDigit(c) == c \in Range(Digits)

\* how many characters from position p on are digits: the greedy \d+
RECURSIVE DigitRun(_, _)
DigitRun(s, p) == IF p <= Len(s) /\ isDigit(s[p]) THEN 1 + DigitRun(s, p + 1) ELSE 0

\* parseInt of a digit string
RECURSIVE parseInt(_)
parseInt(s) ==
    IF s = <<>> THEN 0
    ELSE 10 * parseInt(SubSeq(s, 1, Len(s) - 1)) + (IndexIn(s[Len(s)], Digits) - 1)

\* Number.prototype.toString of a natural number
RECURSIVE toString(_)
toString(n) == IF n < 10 THEN <<Digits[n + 1]>> ELSE toString(n \div 10) \o <<Digits[(n % 10) + 1]>>

\* String.prototype.padStart(width, '0')
RECURSIVE padStart(_, _)
padStart(s, width) == IF Len(s) >= width THEN s ELSE padStart(<<"0">> \o s, width)

\* (?:(\d+)X)? tried at position p: the captured digits, <<>> when the group
\* takes no part, and the position the match continues from
Group(s, p, letter) ==
    LET n == DigitRun(s, p)
    IN IF n > 0 /\ p + n <= Len(s) /\ s[p + n] = letter
       THEN [capture |-> SubSeq(s, p, p + n - 1), next |-> p + n + 1]
       ELSE [capture |-> <<>>, next |-> p]

\* duration.match(/PT(?:(\d+)H)?(?:(\d+)M)?(?:(\d+)S)?/): <<>> for null, else
\* <<the three captures>>, found at the leftmost "PT"
durationMatch(s) ==
    LET starts == {p \in 1..(Len(s) - 1) : s[p] = "P" /\ s[p + 1] = "T"}
    IN IF starts = {} THEN <<>>
       ELSE LET p == CHOOSE q \in starts : \A r \in starts : q <= r
                h == Group(s, p + 2, "H")
                m == Group(s, h.next, "M")
                sec == Group(s, m.next, "S")
            IN <<(<<h.capture, m.capture, sec.capture>>)>>

\* a slip: seconds not padded
formatDurationUnpadded(d) ==
    IF d = <<>> \/ d[1] = <<>> THEN <<>>
    ELSE LET match == durationMatch(d[1])
         IN IF match = <<>> THEN <<>>
            ELSE LET hours == IF match[1][1] # <<>> THEN parseInt(match[1][1]) ELSE 0
                     minutes == IF match[1][2] # <<>> THEN parseInt(match[1][2]) ELSE 0
                     seconds == IF match[1][3] # <<>> THEN parseInt(match[1][3]) ELSE 0
                 IN IF hours > 0
                    THEN <<toString(hours) \o <<":">> \o padStart(toString(minutes), 2)
                             \o <<":">> \o toString(seconds)>>
                    ELSE <<toString(minutes) \o <<":">> \o toString(seconds)>>

\* formatDuration: <<>> for null, else <<the clock text>>
formatDuration(d) ==
    IF d = <<>> \/ d[1] = <<>> THEN <<>>
    ELSE LET match == durationMatch(d[1])
         IN IF match = <<>> THEN <<>>
            ELSE LET hours == IF match[1][1] # <<>> THEN parseInt(match[1][1]) ELSE 0
                     minutes == IF match[1][2] # <<>> THEN parseInt(match[1][2]) ELSE 0
                     seconds == IF match[1][3] # <<>> THEN parseInt(match[1][3]) ELSE 0
                 IN IF hours > 0
                    THEN <<toString(hours) \o <<":">> \o padStart(toString(minutes), 2)
                             \o <<":">> \o padStart(toString(seconds), 2)>>
                    ELSE <<toString(minutes) \o <<":">> \o padStart(toString(seconds), 2)>>

\* a component of a duration: <<>> when omitted, else <<its number>>
Components == {<<>>} \cup {<<n>> : n \in 0..MaxField}

FieldSets == [h : Components, m : Components, s : Components]

\* how a number is written in a duration, with or without a leading zero
Written(c, letter, zero) ==
    IF c = <<>> THEN <<>>
    ELSE (IF zero THEN <<"0">> ELSE <<>>) \o toString(c[1]) \o <<letter>>

\* the duration text PT<H>H<M>M<S>S of a set of components
Encode(f, zero) ==
    <<"P","T">> \o Written(f.h, "H", zero) \o Written(f.m, "M", zero) \o Written(f.s, "S", zero)

\* texts without the PT marker
Unmatched ==
    {<<>>, <<"g","a","r","b","a","g","e">>, <<"P","1","D">>, <<"T","5","M">>, <<"p","t","5","m">>,
     <<"P","1","D","T","2","H">>, <<"4",":","1","3">>}

\* the arguments formatDuration is called with: video.duration
DurationInputs ==
    {[duration |-> <<>>, fields |-> <<>>]}
        \cup {[duration |-> <<g>>, fields |-> <<>>] : g \in Unmatched}
        \cup {[duration |-> <<Encode(f, zero)>>, fields |-> <<f>>] :
                f \in FieldSets, zero \in BOOLEAN}

InitFormat ==
    /\ HomeMounted
    /\ loadCap = MaxLoads
    /\ title = <<>>
    /\ description = <<>>
    /\ detected = <<>>
    /\ FormMounted
    /\ formatted = <<>>
    /\ \E input \in DurationInputs :
          /\ duration = input.duration
          /\ fields = input.fields

\* the card's {formatDuration(video.duration)}
Format ==
    /\ formatted = <<>>
    /\ formatted' = <<formatDuration(duration)>>
    /\ UNCHANGED <<duration, fields, pageVars, detectVars, formVars, loadCap>>

NextFormat == Format

SpecFormat == InitFormat /\ [][NextFormat]_vars

-----------------------------------------------------------------------------
(* Properties of the duration formatter *)

ValueOf(c) == IF c = <<>> THEN 0 ELSE c[1]

TwoDigits(n) == IF n < 10 THEN <<"0">> \o toString(n) ELSE toString(n)

\* H:MM:SS when hours > 0, M:SS otherwise, omitted components read as 0
Clock(f) ==
    IF ValueOf(f.h) > 0
    THEN toString(ValueOf(f.h)) \o <<":">> \o TwoDigits(ValueOf(f.m))
             \o <<":">> \o TwoDigits(ValueOf(f.s))
    ELSE toString(ValueOf(f.m)) \o <<":">> \o TwoDigits(ValueOf(f.s))

\* C14: formatDuration returns nothing for an absent or empty argument and for
\* one without the PT pattern; for PT<H>H<M>M<S>S, with any component omitted
\* and omitted components read as 0, it returns H:MM:SS when hours > 0 and M:SS
\* when hours = 0, minutes and seconds padded to two digits, the leading
\* number unpadded.
C14_FormatDuration ==
    formatted # <<>> =>
        formatted[1] = (IF fields = <<>> THEN <<>> ELSE <<Clock(fields[1])>>)

C14_Witness ==
    /\ duration = <<<<"P","T","1","H","2","M","3","S">>>>
    /\ formatted = <<(<<<<"1",":","0","2",":","0","3">>>>)>>

-----------------------------------------------------------------------------
(* The admin form (VideoForm) *)

\* what the form's handlers never touch
offForm == <<pageVars, detectVars, formatVars, loadCap>>

\* pasted URLs: a short link carrying a video id, and a link of another site
UrlShort == <<"y","o","u","t","u",".","b","e","/","a">>
UrlOther == <<"x",".","i","o","/","a">>

\* extractVideoId: <<>> for no id, else <<id>>; the short-link form
extractVideoId(url) ==
    LET prefix == <<"y","o","u","t","u",".","b","e","/">>
    IN IF Len(url) > Len(prefix) /\ SubSeq(url, 1, Len(prefix)) = prefix
       THEN <<SubSeq(url, Len(prefix) + 1, Len(url))>>
       ELSE <<>>

Urls == {<<>>, UrlShort, UrlOther}

\* what the title and description inputs may be set to
TypedTexts == {<<>>, <<"T">>}

\* the checkboxes the operator toggles
Checkboxes == {All, Music}

\* what getYouTubeVideoData may resolve to
YouTubeData ==
    {[title |-> <<"R","a","p">>, description |-> <<"t","a","l","k">>, thumbnail |-> <<"i">>]}

\* a stored record as the form receives it
Stored(id, c, tags) ==
    Video(id, <<"T">>, <<>>, c, tags) @@ [videoUrl |-> UrlOther, thumbnail |-> <<>>]

\* the records the parent may pass for editing: one with a category and no
\* tags field, one whose tags array is empty
EditVideos == {Stored(6, Vlog, <<>>), Stored(7, Music, <<(<<>>)>>)}

\* the video prop: null or a record
VideoProps == {<<>>} \cup {<<v>> : v \in EditVideos}

\* what the handler step just taken raised: a toast, onVideoSaved, and the
\* record it passed to addVideo or updateVideo
Raise(toast, saved, record) ==
    /\ lastToast' = toast
    /\ savedFired' = saved
    /\ sent' = record

Quiet == Raise("none", FALSE, <<>>)

\* x || 'All'
OrAll(x) == IF x # <<>> THEN x ELSE All

\* video.tags || ['All']
TagsOrAll(v) == IF v.tags # <<>> THEN v.tags[1] ELSE <<All>>

\* useEffect(..., [video]): the form data it sets
EffectFormData(v) ==
    IF v # <<>>
    THEN [title |-> v[1].title, description |-> v[1].description,
          videoUrl |-> v[1].videoUrl, category |-> OrAll(v[1].category),
          tags |-> TagsOrAll(v[1]), thumbnail |-> v[1].thumbnail]
    ELSE Blank

\* useEffect(..., [video]): the selected categories it sets
EffectSelected(v) == IF v # <<>> THEN TagsOrAll(v[1]) ELSE <<All>>

\* clearFormData
clearFormData ==
    /\ formData' = Blank
    /\ selectedCategories' = <<All>>

\* the parent renders the form open with a video prop; the [video] effect runs
\* when the prop changed
ParentOpens(v) ==
    /\ ~open
    /\ open' = TRUE
    /\ videoProp' = v
    /\ IF v # videoProp
       THEN /\ formData' = EffectFormData(v)
            /\ selectedCategories' = EffectSelected(v)
       ELSE UNCHANGED <<formData, selectedCategories>>
    /\ Quiet
    /\ UNCHANGED <<formIsLoading, isLoadingYouTube, fetches, saving, offForm>>

\* handleOpenChange(false): the dialog is dismissed
Dismiss ==
    /\ open
    /\ IF videoProp = <<>> THEN clearFormData
       ELSE UNCHANGED <<formData, selectedCategories>>
    /\ open' = FALSE
    /\ Quiet
    /\ UNCHANGED <<videoProp, formIsLoading, isLoadingYouTube, fetches, saving, offForm>>

\* the Cancel button: onOpenChange(false)
Cancel ==
    /\ open
    /\ ~formIsLoading
    /\ open' = FALSE
    /\ Quiet
    /\ UNCHANGED <<videoProp, formData, selectedCategories, formIsLoading,
                   isLoadingYouTube, fetches, saving, offForm>>

\* the Clear Data button
ClearData ==
    /\ open
    /\ ~formIsLoading
    /\ clearFormData
    /\ Quiet
    /\ UNCHANGED <<videoProp, open, formIsLoading, isLoadingYouTube, fetches,
                   saving, offForm>>

\* the title input's onChange
SetTitle(text) ==
    /\ open
    /\ formData' = [formData EXCEPT !.title = text]
    /\ Quiet
    /\ UNCHANGED <<videoProp, open, selectedCategories, formIsLoading,
                   isLoadingYouTube, fetches, saving, offForm>>

\* the description input's onChange
SetDescription(text) ==
    /\ open
    /\ formData' = [formData EXCEPT !.description = text]
    /\ Quiet
    /\ UNCHANGED <<videoProp, open, selectedCategories, formIsLoading,
                   isLoadingYouTube, fetches, saving, offForm>>

\* newCategories[0] || 'All'
FirstOrAll(newCategories) ==
    IF newCategories = <<>> THEN All ELSE OrAll(newCategories[1])

\* a checkbox's onChange
Toggle(category) ==
    LET Other(c) == c # category
        newCategories ==
            IF category \notin Range(selectedCategories)
            THEN Append(selectedCategories, category)
            ELSE IF SelectSeq(selectedCategories, Other) = <<>> THEN <<All>>
            ELSE SelectSeq(selectedCategories, Other)
    IN /\ open
       /\ selectedCategories' = newCategories
       /\ formData' = [formData EXCEPT !.category = FirstOrAll(newCategories),
                                       !.tags = newCategories]
       /\ Quiet
       /\ UNCHANGED <<videoProp, open, formIsLoading, isLoadingYouTube, fetches,
                      saving, offForm>>

\* handleYouTubeUrlChange up to its await
handleYouTubeUrlChange(url) ==
    /\ open
    /\ formData' = [formData EXCEPT !.videoUrl = url]
    /\ IF extractVideoId(url) # <<>>
       THEN /\ fetches < MaxFetches
            /\ isLoadingYouTube' = TRUE
            /\ fetches' = fetches + 1
       ELSE UNCHANGED <<isLoadingYouTube, fetches>>
    /\ Quiet
    /\ UNCHANGED <<videoProp, open, selectedCategories, formIsLoading, saving, offForm>>

\* youtubeData.description.slice(0, 500)
slice(text) == SubSeq(text, 1, IF Len(text) < 500 THEN Len(text) ELSE 500)

\* handleYouTubeUrlChange after getYouTubeVideoData resolved with data
FetchLoads(youtubeData) ==
    LET autoCategories ==
            detectCategoriesFromContent(youtubeData.title, youtubeData.description)
        chosen == IF Len(autoCategories) > 0 THEN autoCategories ELSE <<All>>
    IN /\ fetches > 0
       /\ formData' =
             [formData EXCEPT
                 !.title = IF @ # <<>> THEN @ ELSE youtubeData.title,
                 !.description = IF @ # <<>> THEN @ ELSE slice(youtubeData.description),
                 !.thumbnail = youtubeData.thumbnail,
                 !.category = IF Len(autoCategories) > 0 THEN autoCategories[1] ELSE All,
                 !.tags = chosen]
       /\ selectedCategories' = chosen
       /\ isLoadingYouTube' = FALSE
       /\ fetches' = fetches - 1
       /\ Raise("loaded", FALSE, <<>>)
       /\ UNCHANGED <<videoProp, open, formIsLoading, saving, offForm>>

\* handleYouTubeUrlChange after getYouTubeVideoData resolved with nothing
FetchMisses ==
    /\ fetches > 0
    /\ isLoadingYouTube' = FALSE
    /\ fetches' = fetches - 1
    /\ Quiet
    /\ UNCHANGED <<videoProp, open, formData, selectedCategories, formIsLoading,
                   saving, offForm>>

\* a slip: the loading flag is not reset when the fetch throws
FetchFailsKeepsLoading ==
    /\ fetches > 0
    /\ fetches' = fetches - 1
    /\ Quiet
    /\ UNCHANGED <<videoProp, open, formData, selectedCategories, formIsLoading,
                   isLoadingYouTube, saving, offForm>>

\* handleYouTubeUrlChange after getYouTubeVideoData rejected: catch, finally
FetchFails ==
    /\ fetches > 0
    /\ isLoadingYouTube' = FALSE
    /\ fetches' = fetches - 1
    /\ Quiet
    /\ UNCHANGED <<videoProp, open, formData, selectedCategories, formIsLoading,
                   saving, offForm>>

\* video?.id
isUpdate == videoProp # <<>> /\ videoProp[1].id # 0

\* the record handleSubmit passes to updateVideo or addVideo
Payload ==
    IF isUpdate THEN formData ELSE [formData EXCEPT !.tags = selectedCategories]

\* a slip: no test that a category is selected
handleSubmitAnyCategories ==
    /\ open
    /\ ~formIsLoading
    /\ ~isLoadingYouTube
    /\ IF formData.title = <<>> \/ formData.videoUrl = <<>>
       THEN /\ Raise("required", FALSE, <<>>)
            /\ UNCHANGED <<formIsLoading, saving>>
       ELSE /\ formIsLoading' = TRUE
            /\ saving' = <<(IF isUpdate THEN "update" ELSE "add")>>
            /\ Raise("none", FALSE, <<Payload>>)
    /\ UNCHANGED <<videoProp, open, formData, selectedCategories, isLoadingYouTube,
                   fetches, offForm>>

\* handleSubmit up to its await
handleSubmit ==
    /\ open
    /\ ~formIsLoading
    /\ ~isLoadingYouTube
    /\ IF formData.title = <<>> \/ formData.videoUrl = <<>>
             \/ Len(selectedCategories) = 0
       THEN /\ Raise("required", FALSE, <<>>)
            /\ UNCHANGED <<formIsLoading, saving>>
       ELSE /\ formIsLoading' = TRUE
            /\ saving' = <<(IF isUpdate THEN "update" ELSE "add")>>
            /\ Raise("none", FALSE, <<Payload>>)
    /\ UNCHANGED <<videoProp, open, formData, selectedCategories, isLoadingYouTube,
                   fetches, offForm>>

\* handleSubmit after the store call resolved
SaveSucceeds ==
    /\ saving # <<>>
    /\ Raise(IF saving[1] = "update" THEN "updated" ELSE "added", TRUE, <<>>)
    /\ open' = FALSE
    /\ formIsLoading' = FALSE
    /\ saving' = <<>>
    /\ UNCHANGED <<videoProp, formData, selectedCategories, isLoadingYouTube,
                   fetches, offForm>>

\* handleSubmit after the store call rejected: catch, finally
SaveFails ==
    /\ saving # <<>>
    /\ Raise(IF saving[1] = "update" THEN "failedUpdate" ELSE "failedAdd", FALSE, <<>>)
    /\ formIsLoading' = FALSE
    /\ saving' = <<>>
    /\ UNCHANGED <<videoProp, open, formData, selectedCategories, isLoadingYouTube,
                   fetches, offForm>>

InitForm ==
    /\ HomeMounted
    /\ loadCap = MaxLoads
    /\ title = <<>>
    /\ description = <<>>
    /\ detected = <<>>
    /\ FormMounted
    /\ FormatIdle

NextForm ==
    \/ \E v \in VideoProps : ParentOpens(v)
    \/ Dismiss
    \/ Cancel
    \/ ClearData
    \/ \E text \in TypedTexts : SetTitle(text)
    \/ \E text \in TypedTexts : SetDescription(text)
    \/ \E category \in Checkboxes : Toggle(category)
    \/ \E url \in Urls : handleYouTubeUrlChange(url)
    \/ \E youtubeData \in YouTubeData : FetchLoads(youtubeData)
    \/ FetchMisses
    \/ FetchFails
    \/ handleSubmit
    \/ SaveSucceeds
    \/ SaveFails

SpecForm == InitForm /\ [][NextForm]_vars

-----------------------------------------------------------------------------
(* Properties of the admin form *)

\* C11: every record the form passes to the store, by addVideo and by
\* updateVideo alike, has a non-empty tags list whose first element is its
\* category.
C11_SentTagsLeadWithCategory ==
    sent # <<>> => (sent[1].tags # <<>> /\ sent[1].tags[1] = sent[1].category)

\* C12: a submit with an empty title, an empty URL or no category selected makes
\* no store call, does not call onVideoSaved, and leaves the form open with its
\* data as it was; a store call is made only from a form with all three.
C12_InvalidSubmitAborts ==
    [][/\ sent' # <<>> =>
             /\ formData.title # <<>>
             /\ formData.videoUrl # <<>>
             /\ selectedCategories # <<>>
       /\ lastToast' = "required" =>
             /\ formData.title = <<>> \/ formData.videoUrl = <<>> \/ selectedCategories = <<>>
             /\ open /\ open'
             /\ sent' = <<>>
             /\ saving' = saving
             /\ ~savedFired'
             /\ formData' = formData
             /\ selectedCategories' = selectedCategories
             /\ videoProp' = videoProp]_vars

C12_Witness ==
    /\ lastToast = "required"
    /\ open
    /\ formData.title # <<>>
    /\ formData.videoUrl # <<>>
    /\ selectedCategories = <<>>

\* C13: a metadata fetch that ends without data, by an empty answer or by a
\* fault, leaves the form's title, description, thumbnail, category, tags and
\* selection as they were, and whenever no fetch is left in flight the
\* YouTube-loading flag is false.
C13_FetchNeverBlocks ==
    [][/\ (fetches' < fetches /\ lastToast' # "loaded") =>
             /\ formData' = formData
             /\ selectedCategories' = selectedCategories
       /\ fetches' = 0 => ~isLoadingYouTube']_vars

C13_Witness ==
    /\ open
    /\ formData.videoUrl = UrlShort
    /\ formData.thumbnail = <<>>
    /\ formData.title = <<>>
    /\ fetches = 0
    /\ ~isLoadingYouTube

\* C17: whenever the form goes from closed to open with no video to edit, it
\* shows the blank state: empty title, description, URL and thumbnail, category
\* "All", tags and selection ["All"].
C17_OpensBlankForAdd ==
    [][(~open /\ open' /\ videoProp' = <<>>) =>
           (formData' = Blank /\ selectedCategories' = <<All>>)]_vars

====
